---- MODULE Spec2Model ----
(***************************************************************************)
(* Model of the bridge client of arcus-mcp-server (src/src/bridge-client.ts):*)
(* the WebSocket connection manager, the correlation table of pending      *)
(* requests with their timeouts, the reconnect timers and the event buffer. *)
(*                                                                         *)
(* Every WebSocket the client creates is a socket 1..MaxSockets with its    *)
(* ready state and the closure variables of the _doConnect call that made   *)
(* it (settled, the promise's resolve/reject).  Node runs one handler at a  *)
(* time, so each handler (with the promise reactions it queues) is one      *)
(* action.  Transport events and inbound frames are the environment's       *)
(* choice.                                                                 *)
(***************************************************************************)
EXTENDS Integers, Sequences, FiniteSets, TLC

\* ---- bounds of the model
MaxSockets == 2
MaxReqs == 2
MaxEvents == 1
\* bufferEvent calls in the specifications of the event buffer: enough to
\* overflow it, and the last few of them where snapshots are kept
MaxAppends == 102
MaxPeekAppends == 3
\* Set-Cookie headers of a login response
MaxCookies == 2
\* ensureConnected calls in the specification of the lazy connection
MaxCalls == 3
\* correlationIds in all: the requests of the client's callers (MaxReqs of
\* them) and, in the specification of set_active_place, those of its two
\* phases
MaxIds == 4

\* ---- program constants
MAX_EVENT_BUFFER == 100
REQUEST_TIMEOUT_MS == 30000
RECONNECT_DELAYS == <<1000, 2000, 5000, 10000, 30000>>

Sockets == 1..MaxSockets
CorrIds == 1..MaxReqs
ReqIds == 1..MaxIds

\* an absent value (null) is the empty sequence, a present one <<v>>
NULL == <<>>
Some(v) == <<v>>

NoPlace == "null"
Places == {"P1"}

\* the subject id and place list the bridge announces on a socket: they
\* differ from one connection to the next
Announcement(s) ==
    IF s % 2 = 1 THEN <<"u1", <<"P1">>>> ELSE <<"u2", <<"P1", "P2">>>>

SESSION_CREATED == "SessionCreated"
SET_ACTIVE_PLACE == "sess:SetActivePlace"
\* the message types of responses, of unsolicited events and of requests
RespTypes == {"EmptyMessage", "Error"}
EventTypes == {"base:ValueChange"}
ReqTypes == {"place:ListDevices"}

\* inbound frames that parse as JSON: the session announcement and the
\* unsolicited events carry no correlationId (docs/arcus-protocol.md), a
\* response carries the correlationId of a request issued before (the ids
\* are random UUIDs)
SessionFrame(s) ==
    [corr |-> 0, mtype |-> SESSION_CREATED,
     personId |-> Announcement(s)[1], places |-> Announcement(s)[2]]
DataFrames ==
    {[corr |-> 0, mtype |-> m, personId |-> "", places |-> <<>>] :
        m \in EventTypes}
    \cup {[corr |-> c, mtype |-> m, personId |-> "", places |-> <<>>] :
             c \in ReqIds, m \in RespTypes}
Frames(s) == {SessionFrame(s)} \cup DataFrames
NoFrame == [corr |-> 0, mtype |-> "", personId |-> "", places |-> <<>>]

SessionInfo(f) == [personId |-> f.personId, places |-> f.places]

VARIABLES
    ws,               \* this.ws: the socket the client refers to, 0 = null
    sock,             \* every socket created: ready state and closure variables
    nextSock,         \* the next socket to be created
    token,            \* this.token
    baseUrl,          \* this._baseUrl
    pending,          \* this.pending: the correlationIds in the table
    reqTimers,        \* the armed request timeouts, by correlationId
    req,              \* every request issued: its promise and its send callback
    nextReq,          \* the next fresh correlationId (randomUUID)
    session,          \* this._session
    activePlaceId,    \* this._activePlaceId
    events,           \* this._events
    nEvents,          \* events buffered so far (the clock of Date.now())
    reconnecting,     \* this._reconnecting
    reconnectAttempt, \* this._reconnectAttempt
    intentionalClose, \* this._intentionalClose
    reconnTimers,     \* the delays of the reconnect timers that are armed
    crashed,          \* an exception left a handler uncaught
    drained,          \* the array the last drainEvents call returned
    peeked,           \* the array the last peekEvents call returned
    login,            \* the login call: its position, the response, its result
    tool              \* the tool layer: its configuration and the last tool call

vars == <<ws, sock, nextSock, token, baseUrl, pending, reqTimers, req, nextReq,
          session, activePlaceId, events, nEvents, reconnecting,
          reconnectAttempt, intentionalClose, reconnTimers, crashed,
          drained, peeked, login, tool>>


\* a socket: state is its ready state (ABORTED and ERRORED read as CLOSING:
\* a handshake aborted by close(), an error emitted), settled the closure
\* variable of _doConnect, origin who called _doConnect, result / value /
\* calls the promise returned
FreeSock == [state |-> "FREE", settled |-> FALSE, origin |-> "none",
             result |-> "none", calls |-> 0, value |-> NULL]
NoReq == [status |-> "none", calls |-> 0, resp |-> NoFrame, sock |-> 0,
          sendCb |-> FALSE, mtype |-> "", placeId |-> NoPlace]

\* no login call has been made
NoLogin == [phase |-> "idle", fetches |-> 0, reached |-> FALSE, status |-> 0,
            cookies |-> <<>>, result |-> "none", value |-> NULL]

\* the tool layer before any tool call, with ARCUS_ENABLE_WRITE unset
\* no set_active_place call: its position, the place asked for, the
\* correlationIds of its phase-1 and phase-2 requests (setActive: the one of
\* sess:SetActivePlace) and the active place when it was called
NoSap == [phase |-> "idle", placeId |-> NoPlace, p1 |-> {}, p2 |-> {},
          setActive |-> 0, before |-> NoPlace]

\* (authToken: ARCUS_AUTH_TOKEN is set; calls, waiters: the ensureConnected
\* calls made, and those of them whose caller still awaits the promise; sap:
\* the set_active_place call)
NoTool == [writeEnabled |-> FALSE, connectStarted |-> FALSE,
           waiting |-> "none", blocked |-> FALSE, message |-> "none",
           name |-> "none", outcome |-> "none",
           authToken |-> TRUE, calls |-> 0, waiters |-> 0, sap |-> NoSap]

Init ==
    /\ ws = 0
    /\ sock = [s \in Sockets |-> FreeSock]
    /\ nextSock = 1
    /\ token = NULL
    /\ baseUrl = NULL
    /\ pending = {}
    /\ reqTimers = {}
    /\ req = [r \in ReqIds |-> NoReq]
    /\ nextReq = 1
    /\ session = NULL
    /\ activePlaceId = NoPlace
    /\ events = <<>>
    /\ nEvents = 0
    /\ reconnecting = FALSE
    /\ reconnectAttempt = 0
    /\ intentionalClose = FALSE
    /\ reconnTimers = <<>>
    /\ crashed = FALSE
    /\ drained = <<>>
    /\ peeked = <<>>
    /\ login = NoLogin
    /\ tool = NoTool

\* ---- promises

\* resolve / reject of the promise _doConnect returns: the first call settles
\* it, a later one is ignored by the promise (calls counts them all)
Resolve(sk, v) ==
    IF sk.result = "pending"
    THEN [sk EXCEPT !.result = "resolved", !.value = Some(v), !.calls = @ + 1]
    ELSE [sk EXCEPT !.calls = @ + 1]
Reject(sk) ==
    IF sk.result = "pending"
    THEN [sk EXCEPT !.result = "rejected", !.calls = @ + 1]
    ELSE [sk EXCEPT !.calls = @ + 1]

\* mutant of ReqResolve: a response whose messageType is Error rejects
ReqResolveUnlessError(rq, f) ==
    IF rq.status # "pending"
    THEN [rq EXCEPT !.calls = @ + 1]
    ELSE IF f.mtype = "Error"
         THEN [rq EXCEPT !.status = "error", !.calls = @ + 1]
         ELSE [rq EXCEPT !.status = "resolved", !.resp = f, !.calls = @ + 1]

\* resolve / reject of the promise sendRequest returns
ReqResolve(rq, f) ==
    IF rq.status = "pending"
    THEN [rq EXCEPT !.status = "resolved", !.resp = f, !.calls = @ + 1]
    ELSE [rq EXCEPT !.calls = @ + 1]
ReqReject(rq, why) ==
    IF rq.status = "pending"
    THEN [rq EXCEPT !.status = why, !.calls = @ + 1]
    ELSE [rq EXCEPT !.calls = @ + 1]

\* ---- the event buffer

Min(a, b) == IF a < b THEN a ELSE b

\* mutant of SliceLast: slice(0, n), the first n elements
SliceFirst(seq, n) ==
    IF Len(seq) <= n THEN seq ELSE SubSeq(seq, 1, n)

\* Array.prototype.slice(-n): the last n elements
SliceLast(seq, n) ==
    IF Len(seq) <= n THEN seq ELSE SubSeq(seq, Len(seq) - n + 1, Len(seq))

\* bufferEvent: the event keeps the frame's messageType, stamped Date.now()
BufferEvent(evs, f, now) ==
    LET pushed == Append(evs, [timestamp |-> now, messageType |-> f.mtype])
    IN  IF Len(pushed) > MAX_EVENT_BUFFER
        THEN SliceLast(pushed, MAX_EVENT_BUFFER)
        ELSE pushed

\* ---- reconnection

\* the fields _scheduleReconnect reads and writes
ReconnState == [attempt |-> reconnectAttempt, reconnecting |-> reconnecting,
                timers |-> reconnTimers]

DelayFor(attempt) ==
    RECONNECT_DELAYS[Min(attempt, Len(RECONNECT_DELAYS) - 1) + 1]

ScheduleReconnect(rs) ==
    [attempt |-> rs.attempt + 1, reconnecting |-> TRUE,
     timers |-> Append(rs.timers, DelayFor(rs.attempt))]

\* mutant of ShouldReconnect: the test of _intentionalClose is inverted
ShouldReconnectInverted == intentionalClose /\ baseUrl # NULL /\ token # NULL

\* the close handler's test before it schedules a reconnect
ShouldReconnect == ~intentionalClose /\ baseUrl # NULL /\ token # NULL

\* the rejection callback the reconnect timer attaches to _doConnect()
ReconnectFailed(rs) ==
    IF ~intentionalClose THEN ScheduleReconnect(rs) ELSE rs

\* the reaction to a rejection of socket s's promise: only the reconnect timer
\* attaches one in this class (a caller of connect attaches its own)
OnRejected(s, before, after, rs) ==
    IF before.result = "pending" /\ after.result = "rejected"
       /\ after.origin = "reconnect"
    THEN ReconnectFailed(rs)
    ELSE rs

SetReconn(rs) ==
    /\ reconnectAttempt' = rs.attempt
    /\ reconnecting' = rs.reconnecting
    /\ reconnTimers' = rs.timers

\* ---- connect

\* _doConnect: a new WebSocket, which this.ws now refers to
DoConnect(origin) ==
    /\ nextSock <= MaxSockets
    /\ sock' = [sock EXCEPT ![nextSock] =
                   [FreeSock EXCEPT !.state = "CONNECTING", !.origin = origin,
                                    !.result = "pending"]]
    /\ ws' = nextSock
    /\ nextSock' = nextSock + 1

\* connect(baseUrl, token?)
Connect(hasToken) ==
    /\ ~crashed
    /\ IF ~hasToken /\ token = NULL
       THEN UNCHANGED <<ws, sock, nextSock, token, baseUrl, intentionalClose>>
       ELSE /\ baseUrl' = Some("url")
            /\ token' = IF hasToken THEN Some("tok") ELSE token
            /\ intentionalClose' = FALSE
            /\ DoConnect("connect")
    /\ UNCHANGED <<pending, reqTimers, req, nextReq, session, activePlaceId,
                   events, nEvents, reconnecting, reconnectAttempt,
                   reconnTimers, crashed>>
    /\ UNCHANGED <<drained, peeked, login, tool>>

\* ws.on("open")
WsOpen(s) ==
    /\ ~crashed
    /\ sock[s].state = "CONNECTING"
    /\ sock' = [sock EXCEPT ![s].state = "OPEN"]
    /\ reconnectAttempt' = 0
    /\ UNCHANGED <<ws, nextSock, token, baseUrl, pending, reqTimers, req,
                   nextReq, session, activePlaceId, events, nEvents,
                   reconnecting, intentionalClose, reconnTimers, crashed>>
    /\ UNCHANGED <<drained, peeked, login, tool>>

\* ---- sendRequest

\* the guard of sendRequest: no socket, or its readyState is not OPEN
NotConnected == ws = 0 \/ sock[ws].state # "OPEN"

\* the entry sendRequest registers under a fresh correlationId, its timeout
\* armed and the frame handed to this.ws.send with a completion callback
NewReq(mtype, placeId) ==
    [NoReq EXCEPT !.status = "pending", !.sock = ws, !.sendCb = TRUE,
                  !.mtype = mtype, !.placeId = placeId]

SendRequest(mtype) ==
    /\ ~crashed
    /\ IF NotConnected
       THEN UNCHANGED <<pending, reqTimers, req, nextReq>>
       ELSE /\ nextReq <= MaxReqs
            /\ req' = [req EXCEPT ![nextReq] = NewReq(mtype, NoPlace)]
            /\ pending' = pending \cup {nextReq}
            /\ reqTimers' = reqTimers \cup {nextReq}
            /\ nextReq' = nextReq + 1
    /\ UNCHANGED <<ws, sock, nextSock, token, baseUrl, session, activePlaceId,
                   events, nEvents, reconnecting, reconnectAttempt,
                   intentionalClose, reconnTimers, crashed>>
    /\ UNCHANGED <<drained, peeked, login, tool>>

\* mutant of RequestTimeout: the callback empties the pending table
RequestTimeoutClearsTable(r) ==
    /\ ~crashed
    /\ r \in reqTimers
    /\ reqTimers' = reqTimers \ {r}
    /\ pending' = {}
    /\ req' = [req EXCEPT ![r] = ReqReject(@, "timeout")]
    /\ UNCHANGED <<ws, sock, nextSock, token, baseUrl, nextReq, session,
                   activePlaceId, events, nEvents, reconnecting,
                   reconnectAttempt, intentionalClose, reconnTimers, crashed>>
    /\ UNCHANGED <<drained, peeked, login, tool>>

\* mutant of RequestTimeout: the callback rejects and leaves the entry in the
\* table
RequestTimeoutKeepsEntry(r) ==
    /\ ~crashed
    /\ r \in reqTimers
    /\ reqTimers' = reqTimers \ {r}
    /\ req' = [req EXCEPT ![r] = ReqReject(@, "timeout")]
    /\ UNCHANGED <<ws, sock, nextSock, token, baseUrl, pending, nextReq,
                   session, activePlaceId, events, nEvents, reconnecting,
                   reconnectAttempt, intentionalClose, reconnTimers, crashed>>
    /\ UNCHANGED <<drained, peeked, login, tool>>

\* the request's setTimeout callback, REQUEST_TIMEOUT_MS after issuance
RequestTimeout(r) ==
    /\ ~crashed
    /\ r \in reqTimers
    /\ reqTimers' = reqTimers \ {r}
    /\ pending' = pending \ {r}
    /\ req' = [req EXCEPT ![r] = ReqReject(@, "timeout")]
    /\ UNCHANGED <<ws, sock, nextSock, token, baseUrl, nextReq, session,
                   activePlaceId, events, nEvents, reconnecting,
                   reconnectAttempt, intentionalClose, reconnTimers, crashed>>
    /\ UNCHANGED <<drained, peeked, login, tool>>

\* mutant of SendCallback: the callback rejects and leaves the entry and its
\* timer in place
SendCallbackKeepsEntry(r) ==
    /\ ~crashed
    /\ req[r].sendCb
    /\ req' = [req EXCEPT ![r] = [ReqReject(@, "senderr") EXCEPT !.sendCb = FALSE]]
    /\ UNCHANGED <<ws, sock, nextSock, token, baseUrl, pending, reqTimers,
                   nextReq, session, activePlaceId, events, nEvents,
                   reconnecting, reconnectAttempt, intentionalClose,
                   reconnTimers, crashed>>
    /\ UNCHANGED <<drained, peeked, login, tool>>

\* the completion callback of this.ws.send reporting an error (called without
\* one it does nothing); sendCb: the callback has reported no error so far
SendCallback(r) ==
    /\ ~crashed
    /\ req[r].sendCb
    /\ reqTimers' = reqTimers \ {r}
    /\ pending' = pending \ {r}
    /\ req' = [req EXCEPT ![r] = [ReqReject(@, "senderr") EXCEPT !.sendCb = FALSE]]
    /\ UNCHANGED <<ws, sock, nextSock, token, baseUrl, nextReq, session,
                   activePlaceId, events, nEvents, reconnecting,
                   reconnectAttempt, intentionalClose, reconnTimers, crashed>>
    /\ UNCHANGED <<drained, peeked, login, tool>>

\* ---- ws.on("message")

\* frames reach the handler while the socket is open, and after a local
\* close() until the peer's close frame arrives
Receiving(s) == sock[s].state \in {"OPEN", "CLOSING"}

\* JSON.parse throws: the handler returns
WsMessageBadJson(s) ==
    /\ ~crashed
    /\ Receiving(s)
    /\ UNCHANGED <<ws, sock, nextSock, token, baseUrl, pending, reqTimers, req,
                   nextReq, session, activePlaceId, events, nEvents,
                   reconnecting, reconnectAttempt, intentionalClose,
                   reconnTimers, crashed>>
    /\ UNCHANGED <<drained, peeked, login, tool>>

\* the test of the SessionCreated branch
IsSessionCreated(s, f) == f.mtype = SESSION_CREATED /\ ~sock[s].settled

\* the SessionCreated branch re-sets the active place after a reconnect
RestoresPlace == reconnecting /\ activePlaceId # NoPlace

\* the SessionCreated branch: the session is stored, the active place is
\* re-set through sendRequest (which throws when this.ws is not OPEN, and the
\* handler ends there), _reconnecting is cleared and the promise resolved
WsSessionCreated(s, f) ==
    /\ ~crashed
    /\ Receiving(s)
    /\ f = SessionFrame(s)
    /\ IsSessionCreated(s, f)
    /\ session' = Some(SessionInfo(f))
    /\ IF RestoresPlace /\ NotConnected
       THEN /\ sock' = [sock EXCEPT ![s].settled = TRUE]
            /\ crashed' = TRUE
            /\ UNCHANGED <<pending, reqTimers, req, nextReq, reconnecting>>
       ELSE /\ sock' = [sock EXCEPT ![s] =
                           Resolve([@ EXCEPT !.settled = TRUE], SessionInfo(f))]
            /\ reconnecting' = FALSE
            /\ crashed' = FALSE
            /\ IF RestoresPlace
               THEN /\ nextReq <= MaxReqs
                    /\ req' = [req EXCEPT ![nextReq] =
                                  NewReq(SET_ACTIVE_PLACE, activePlaceId)]
                    /\ pending' = pending \cup {nextReq}
                    /\ reqTimers' = reqTimers \cup {nextReq}
                    /\ nextReq' = nextReq + 1
               ELSE UNCHANGED <<pending, reqTimers, req, nextReq>>
    /\ UNCHANGED <<ws, nextSock, token, baseUrl, activePlaceId, events, nEvents,
                   reconnectAttempt, intentionalClose, reconnTimers>>
    /\ UNCHANGED <<drained, peeked, login, tool>>

\* mutant of Matches: any frame that carries a correlationId is taken for a
\* response, the has() test forgotten
MatchesAnyId(f) == f.corr # 0

\* the routing test: the frame's correlationId is in the pending table
Matches(f) == f.corr # 0 /\ f.corr \in pending

\* mutant of EntryFor: responses are matched to requests in issuance order
OldestPending(f) == CHOOSE r \in pending : \A q \in pending : r <= q

\* the entry a matching frame settles: this.pending.get(corrId)
EntryFor(f) == f.corr

\* mutant of WsFrame: a matching frame resolves the request and leaves its
\* timer armed
WsFrameKeepsTimer(s, f) ==
    /\ ~crashed
    /\ Receiving(s)
    /\ f \in Frames(s)
    /\ f.corr < nextReq
    /\ ~IsSessionCreated(s, f)
    /\ IF Matches(f)
       THEN /\ pending' = pending \ {f.corr}
            /\ req' = [req EXCEPT ![EntryFor(f)] = ReqResolve(@, f)]
            /\ UNCHANGED <<events, nEvents, reqTimers>>
       ELSE /\ nEvents < MaxEvents
            /\ events' = BufferEvent(events, f, nEvents + 1)
            /\ nEvents' = nEvents + 1
            /\ UNCHANGED <<pending, reqTimers, req>>
    /\ UNCHANGED <<ws, sock, nextSock, token, baseUrl, nextReq, session,
                   activePlaceId, reconnecting, reconnectAttempt,
                   intentionalClose, reconnTimers, crashed>>
    /\ UNCHANGED <<drained, peeked, login, tool>>

\* every other frame is routed by its correlationId: to the pending request,
\* or to the event buffer
WsFrame(s, f) ==
    /\ ~crashed
    /\ Receiving(s)
    /\ f \in Frames(s)
    /\ f.corr < nextReq
    /\ ~IsSessionCreated(s, f)
    /\ IF Matches(f)
       THEN /\ reqTimers' = reqTimers \ {EntryFor(f)}
            /\ pending' = pending \ {f.corr}
            /\ req' = [req EXCEPT ![EntryFor(f)] = ReqResolve(@, f)]
            /\ UNCHANGED <<events, nEvents>>
       ELSE /\ nEvents < MaxEvents
            /\ events' = BufferEvent(events, f, nEvents + 1)
            /\ nEvents' = nEvents + 1
            /\ UNCHANGED <<pending, reqTimers, req>>
    /\ UNCHANGED <<ws, sock, nextSock, token, baseUrl, nextReq, session,
                   activePlaceId, reconnecting, reconnectAttempt,
                   intentionalClose, reconnTimers, crashed>>
    /\ UNCHANGED <<drained, peeked, login, tool>>

\* frames that parse as JSON and lack the headers object, the payload object
\* or both (corr: the correlationId of the headers, where there are headers)
MalformedFrames ==
    {[headers |-> h, payload |-> p, corr |-> c] :
        h \in BOOLEAN, p \in BOOLEAN, c \in 0..MaxReqs}
    \ {m \in [headers : BOOLEAN, payload : BOOLEAN, corr : 0..MaxReqs] :
          (m.headers /\ m.payload) \/ (~m.headers /\ m.corr # 0)}

\* the frame a request is resolved with when the frame has no payload
PayloadlessFrame(m) == [NoFrame EXCEPT !.corr = m.corr]

\* the routing test on such a frame: msg.headers?.correlationId
MalformedMatches(m) == m.headers /\ m.corr # 0 /\ m.corr \in pending

\* the message handler on such a frame, on a transport whose announcement has
\* been received: with the correlationId of a pending request it resolves the
\* request; otherwise bufferEvent reads msg.payload.messageType and
\* msg.headers.destination, and the TypeError leaves the handler
WsMalformed(s, m) ==
    /\ ~crashed
    /\ Receiving(s)
    /\ sock[s].settled
    /\ m \in MalformedFrames
    /\ m.corr < nextReq
    /\ IF MalformedMatches(m)
       THEN /\ reqTimers' = reqTimers \ {m.corr}
            /\ pending' = pending \ {m.corr}
            /\ req' = [req EXCEPT ![m.corr] = ReqResolve(@, PayloadlessFrame(m))]
            /\ UNCHANGED crashed
       ELSE /\ crashed' = TRUE
            /\ UNCHANGED <<pending, reqTimers, req>>
    /\ UNCHANGED <<ws, sock, nextSock, token, baseUrl, nextReq, session,
                   activePlaceId, events, nEvents, reconnecting,
                   reconnectAttempt, intentionalClose, reconnTimers>>
    /\ UNCHANGED <<drained, peeked, login, tool>>

\* ---- ws.on("error") and ws.on("close")

\* mutant of ErrorSettle: the handler rejects and leaves settled unset
ErrorSettleUnmarked(sk) ==
    IF ~sk.settled THEN Reject(sk) ELSE sk

\* the error handler settles the promise unless it is settled
ErrorSettle(sk) ==
    IF ~sk.settled THEN Reject([sk EXCEPT !.settled = TRUE]) ELSE sk

\* an error is emitted while connecting (the handshake failed, or close() was
\* called before the connection was established) or while open; the socket
\* is then closing and a close event follows
WsError(s) ==
    /\ ~crashed
    /\ sock[s].state \in {"CONNECTING", "ABORTED", "OPEN"}
    /\ LET after == [ErrorSettle(sock[s]) EXCEPT !.state = "ERRORED"]
       IN  /\ sock' = [sock EXCEPT ![s] = after]
           /\ SetReconn(OnRejected(s, sock[s], after, ReconnState))
    /\ UNCHANGED <<ws, nextSock, token, baseUrl, pending, reqTimers, req,
                   nextReq, session, activePlaceId, events, nEvents,
                   intentionalClose, crashed>>
    /\ UNCHANGED <<drained, peeked, login, tool>>

\* mutant of RejectAllPending: the loop ends after the first entry
RejectFirstPending(rq) ==
    [r \in ReqIds |->
        IF r \in pending /\ \A q \in pending : r <= q
        THEN ReqReject(rq[r], "closed") ELSE rq[r]]

\* the close handler's loop over this.pending: every entry's timer is
\* cleared, its promise rejected and the entry deleted
RejectAllPending(rq) ==
    [r \in ReqIds |-> IF r \in pending THEN ReqReject(rq[r], "closed") ELSE rq[r]]
PendingAfterClose == {}
TimersAfterClose == reqTimers \ pending

\* the close handler settles the promise unless it is settled
CloseSettle(sk) ==
    IF ~sk.settled THEN Reject([sk EXCEPT !.settled = TRUE]) ELSE sk

\* the close handler's auto-reconnect
CloseReconnect(rs) == IF ShouldReconnect THEN ScheduleReconnect(rs) ELSE rs

\* mutant of WsClose: the handler also empties the event buffer
WsCloseDropsEvents(s) ==
    /\ ~crashed
    /\ sock[s].state \in {"OPEN", "CLOSING", "ERRORED"}
    /\ req' = RejectAllPending(req)
    /\ pending' = PendingAfterClose
    /\ reqTimers' = TimersAfterClose
    /\ LET after == [CloseSettle(sock[s]) EXCEPT !.state = "CLOSED"]
       IN  /\ sock' = [sock EXCEPT ![s] = after]
           /\ SetReconn(OnRejected(s, sock[s], after, CloseReconnect(ReconnState)))
    /\ session' = NULL
    /\ events' = <<>>
    /\ UNCHANGED <<ws, nextSock, token, baseUrl, nextReq, activePlaceId,
                   nEvents, intentionalClose, crashed>>
    /\ UNCHANGED <<drained, peeked, login, tool>>

WsClose(s) ==
    /\ ~crashed
    /\ sock[s].state \in {"OPEN", "CLOSING", "ERRORED"}
    /\ req' = RejectAllPending(req)
    /\ pending' = PendingAfterClose
    /\ reqTimers' = TimersAfterClose
    /\ LET after == [CloseSettle(sock[s]) EXCEPT !.state = "CLOSED"]
       IN  /\ sock' = [sock EXCEPT ![s] = after]
           /\ SetReconn(OnRejected(s, sock[s], after, CloseReconnect(ReconnState)))
    /\ session' = NULL
    /\ UNCHANGED <<ws, nextSock, token, baseUrl, nextReq, activePlaceId, events,
                   nEvents, intentionalClose, crashed>>
    /\ UNCHANGED <<drained, peeked, login, tool>>

\* ---- the reconnect timer

RemoveAt(seq, i) == SubSeq(seq, 1, i - 1) \o SubSeq(seq, i + 1, Len(seq))

\* the callback of the setTimeout of _scheduleReconnect
ReconnectTimer(i) ==
    /\ ~crashed
    /\ i \in 1..Len(reconnTimers)
    /\ reconnTimers' = RemoveAt(reconnTimers, i)
    /\ IF intentionalClose
       THEN UNCHANGED <<ws, sock, nextSock>>
       ELSE DoConnect("reconnect")
    /\ UNCHANGED <<token, baseUrl, pending, reqTimers, req, nextReq, session,
                   activePlaceId, events, nEvents, reconnecting,
                   reconnectAttempt, intentionalClose, crashed>>
    /\ UNCHANGED <<drained, peeked, login, tool>>

\* ---- disconnect, setActivePlace, drainEvents

\* WebSocket.close(): a connecting socket aborts its handshake (an error and a
\* close follow), an open one starts the closing handshake
WsCloseCall(st) ==
    CASE st = "CONNECTING" -> "ABORTED"
      [] st = "OPEN" -> "CLOSING"
      [] OTHER -> st

Disconnect ==
    /\ ~crashed
    /\ intentionalClose' = TRUE
    /\ IF ws # 0
       THEN /\ sock' = [sock EXCEPT ![ws].state = WsCloseCall(@)]
            /\ ws' = 0
       ELSE UNCHANGED <<ws, sock>>
    /\ session' = NULL
    /\ UNCHANGED <<nextSock, token, baseUrl, pending, reqTimers, req, nextReq,
                   activePlaceId, events, nEvents, reconnecting,
                   reconnectAttempt, reconnTimers, crashed>>
    /\ UNCHANGED <<drained, peeked, login, tool>>

SetActivePlace(p) ==
    /\ ~crashed
    /\ activePlaceId' = p
    /\ UNCHANGED <<ws, sock, nextSock, token, baseUrl, pending, reqTimers, req,
                   nextReq, session, events, nEvents, reconnecting,
                   reconnectAttempt, intentionalClose, reconnTimers, crashed>>
    /\ UNCHANGED <<drained, peeked, login, tool>>

\* mutant of DrainEvents: this._events is cleared first and then returned
DrainEventsReturnsCleared ==
    /\ ~crashed
    /\ drained' = <<>>
    /\ events' = <<>>
    /\ UNCHANGED <<ws, sock, nextSock, token, baseUrl, pending, reqTimers, req,
                   nextReq, session, activePlaceId, nEvents, reconnecting,
                   reconnectAttempt, intentionalClose, reconnTimers, crashed,
                   peeked, login, tool>>

\* drainEvents returns the array this._events referred to and lets
\* this._events refer to a new, empty one
DrainEvents ==
    /\ ~crashed
    /\ drained' = events
    /\ events' = <<>>
    /\ UNCHANGED <<ws, sock, nextSock, token, baseUrl, pending, reqTimers, req,
                   nextReq, session, activePlaceId, nEvents, reconnecting,
                   reconnectAttempt, intentionalClose, reconnTimers, crashed,
                   peeked, login, tool>>

\* mutant of PeekEvents: the snapshot is taken by emptying the buffer
PeekEventsDrains ==
    /\ ~crashed
    /\ peeked' = events
    /\ events' = <<>>
    /\ UNCHANGED <<ws, sock, nextSock, token, baseUrl, pending, reqTimers, req,
                   nextReq, session, activePlaceId, nEvents, reconnecting,
                   reconnectAttempt, intentionalClose, reconnTimers, crashed,
                   drained, login, tool>>

\* peekEvents returns a copy of this._events
PeekEvents ==
    /\ ~crashed
    /\ peeked' = events
    /\ UNCHANGED <<ws, sock, nextSock, token, baseUrl, pending, reqTimers, req,
                   nextReq, session, activePlaceId, events, nEvents,
                   reconnecting, reconnectAttempt, intentionalClose,
                   reconnTimers, crashed, drained, login, tool>>

\* the list_care_status tool once ensureConnected has found a session: it
\* reads the buffer through peekEvents and filters the copy
ListCareStatus ==
    /\ session # NULL
    /\ PeekEvents

\* a call of bufferEvent(msg), as the message handler makes for an unmatched
\* frame
BufferEventCall(f) ==
    /\ ~crashed
    /\ nEvents < MaxAppends
    /\ events' = BufferEvent(events, f, nEvents + 1)
    /\ nEvents' = nEvents + 1
    /\ UNCHANGED <<ws, sock, nextSock, token, baseUrl, pending, reqTimers, req,
                   nextReq, session, activePlaceId, reconnecting,
                   reconnectAttempt, intentionalClose, reconnTimers, crashed,
                   drained, peeked, login, tool>>

\* ---- login

\* the statuses of the HTTP response, the Set-Cookie headers it carries (at
\* most MaxCookies of them, a name and a value each; the value may be empty)
Statuses == {200, 204, 299, 300, 301, 302, 303, 307, 399, 400, 401, 500}
TOKEN_COOKIE == "irisAuthToken"
Cookies == [name : {TOKEN_COOKIE, "JSESSIONID"}, value : {"", "T1", "T2"}]
CookieLists == UNION {[1..n -> Cookies] : n \in 0..MaxCookies}

\* mutant of StatusAccepted: every redirect status is accepted
StatusAcceptedAnyRedirect(st) == 200 <= st /\ st <= 399

\* the status test of login: res.ok (200..299) or 302
StatusAccepted(st) == (200 <= st /\ st <= 299) \/ st = 302

\* cookie.match(/irisAuthToken=([^;]+)/): the name, and a value of one
\* character at least
IsTokenCookie(c) == c.name = TOKEN_COOKIE /\ c.value # ""

HasTokenCookie(cs) == \E i \in 1..Len(cs) : IsTokenCookie(cs[i])

\* the loop over the Set-Cookie headers returns at the first match
FirstToken(cs) ==
    LET i == CHOOSE k \in 1..Len(cs) :
                 /\ IsTokenCookie(cs[k])
                 /\ \A j \in 1..(k - 1) : ~IsTokenCookie(cs[j])
    IN  cs[i].value

\* login(baseUrl, username, password) up to its await: one fetch is issued
LoginFetch ==
    /\ ~crashed
    /\ login.phase = "idle"
    /\ login' = [login EXCEPT !.phase = "awaiting", !.fetches = @ + 1]
    /\ UNCHANGED <<ws, sock, nextSock, token, baseUrl, pending, reqTimers, req,
                   nextReq, session, activePlaceId, events, nEvents,
                   reconnecting, reconnectAttempt, intentionalClose,
                   reconnTimers, crashed, drained, peeked, tool>>

\* fetch rejects (the endpoint is unreachable): login rejects with its error
LoginFetchFailed ==
    /\ ~crashed
    /\ login.phase = "awaiting"
    /\ login' = [login EXCEPT !.phase = "done", !.result = "network"]
    /\ UNCHANGED <<ws, sock, nextSock, token, baseUrl, pending, reqTimers, req,
                   nextReq, session, activePlaceId, events, nEvents,
                   reconnecting, reconnectAttempt, intentionalClose,
                   reconnTimers, crashed, drained, peeked, tool>>

\* the rest of login, on the response: the status test, then the cookies
LoginResponse(st, cs) ==
    /\ ~crashed
    /\ login.phase = "awaiting"
    /\ LET got == [login EXCEPT !.phase = "done", !.reached = TRUE,
                                !.status = st, !.cookies = cs]
       IN  IF ~StatusAccepted(st)
           THEN /\ login' = [got EXCEPT !.result = "status"]
                /\ UNCHANGED token
           ELSE IF HasTokenCookie(cs)
                THEN /\ login' = [got EXCEPT !.result = "token",
                                             !.value = Some(FirstToken(cs))]
                     /\ token' = Some(FirstToken(cs))
                ELSE /\ login' = [got EXCEPT !.result = "nocookie"]
                     /\ UNCHANGED token
    /\ UNCHANGED <<ws, sock, nextSock, baseUrl, pending, reqTimers, req,
                   nextReq, session, activePlaceId, events, nEvents,
                   reconnecting, reconnectAttempt, intentionalClose,
                   reconnTimers, crashed, drained, peeked, tool>>

NextLogin ==
    \/ LoginFetch
    \/ LoginFetchFailed
    \/ \E st \in Statuses : \E cs \in CookieLists : LoginResponse(st, cs)

SpecLogin == Init /\ [][NextLogin]_vars

\* ---- the tools (src/src/tools.ts)

\* the tools whose handler begins with requirePlace, and those that call
\* requireWrite (after requirePlace, where they call both)
PlaceGuarded ==
    {"list_history", "list_persons", "list_devices", "get_device",
     "get_devices", "device_command", "identify_device", "doorlock_buzz_in",
     "doorlock_authorize_person", "doorlock_deauthorize_person", "list_rules",
     "delete_rule", "enable_rule", "disable_rule", "list_rule_templates",
     "resolve_rule_template", "create_rule", "list_incidents", "list_scenes",
     "arm_alarm", "disarm_alarm", "get_hub", "reboot_hub",
     "zwave_network_info", "zwave_heal", "zwave_cancel_heal",
     "zwave_remove_zombie", "zigbee_network_info", "zigbee_get_stats",
     "zigbee_scan", "hub_syslog", "hub_bootlog", "hub_processes", "hub_load",
     "hub_agent_db", "hub_files", "list_subsystems", "search_devices",
     "fire_scene"}
WriteGuarded ==
    {"device_command", "doorlock_buzz_in", "doorlock_authorize_person",
     "doorlock_deauthorize_person", "delete_rule", "enable_rule",
     "disable_rule", "create_rule", "arm_alarm", "disarm_alarm", "reboot_hub",
     "zwave_heal", "zwave_cancel_heal", "zwave_remove_zombie",
     "search_devices", "fire_scene", "send_message"}
\* the tools that test the message type against BLOCKED_MESSAGE_TYPES
BlocklistTools == {"device_command", "send_message"}
\* the tools that send a request to the bridge (list_events and
\* list_care_status read the event buffer: DrainEvents, ListCareStatus)
Tools == PlaceGuarded \cup WriteGuarded \cup {"list_places", "set_active_place"}

\* requirePlace returns its error: no active place is set
RequirePlace == activePlaceId = NoPlace

\* mutant of RequireWrite: the test of WRITE_ENABLED is inverted
RequireWriteInverted == tool.writeEnabled

\* requireWrite returns its error: WRITE_ENABLED is false
RequireWrite == ~tool.writeEnabled

\* mutant of GuardOutcome: requireWrite is called before requirePlace
GuardOutcomeWriteFirst(t) ==
    IF t \in WriteGuarded /\ RequireWrite THEN "write_disabled"
    ELSE IF t \in PlaceGuarded /\ RequirePlace THEN "no_place"
    ELSE "pass"

\* the guards at the head of a tool handler, in the order of the code
GuardOutcome(t) ==
    IF t \in PlaceGuarded /\ RequirePlace THEN "no_place"
    ELSE IF t \in WriteGuarded /\ RequireWrite THEN "write_disabled"
    ELSE "pass"

\* the promise ensureConnected caches is the one of its connect call
ConnectSettled ==
    \E s \in Sockets : sock[s].origin = "connect" /\ sock[s].result # "pending"
ConnectRejected ==
    \E s \in Sockets : sock[s].origin = "connect" /\ sock[s].result = "rejected"

\* the request a tool sends, by its kind: a command of a tool that writes, a
\* query of one that reads
RequestKind(t) == IF t \in WriteGuarded THEN "command" ELSE "query"

\* what a handler does once ensureConnected has resolved, up to its first
\* request: list_places gives up without a session, a blocked message type
\* is refused, and sendRequest throws unless this.ws is open (blk: the
\* message type given is on the block list)
ProceedOutcome(t, blk) ==
    IF t = "list_places" /\ session = NULL THEN "not_connected"
    ELSE IF t \in BlocklistTools /\ blk THEN "blocked"
    ELSE IF NotConnected THEN "threw"
    ELSE "sent"

\* msg: the message type the caller gave (device_command, send_message), which
\* the request then carries; "none" for the tools that take none
RequestLabel(t, msg) == IF msg = "none" THEN RequestKind(t) ELSE msg

ToolProceedAs(t, blk, msg) ==
    /\ tool' = [tool EXCEPT !.name = t, !.waiting = "none", !.blocked = FALSE,
                            !.message = msg,
                            !.outcome = ProceedOutcome(t, blk)]
    /\ IF ProceedOutcome(t, blk) = "sent"
       THEN /\ nextReq <= MaxReqs
            /\ req' = [req EXCEPT ![nextReq] =
                          NewReq(RequestLabel(t, msg), NoPlace)]
            /\ pending' = pending \cup {nextReq}
            /\ reqTimers' = reqTimers \cup {nextReq}
            /\ nextReq' = nextReq + 1
       ELSE UNCHANGED <<pending, reqTimers, req, nextReq>>

ToolProceed(t, blk) == ToolProceedAs(t, blk, "none")

\* a tool call: the guards, then ensureConnected; with a session the handler
\* goes on at once, without one it waits for the connect promise, which the
\* first such call creates by calling connect (ARCUS_AUTH_TOKEN is set: no
\* login precedes); one handler waits at a time
ToolCallWith(t, blk, msg) ==
    /\ ~crashed
    /\ tool.waiting = "none"
    /\ t \in Tools
    /\ IF GuardOutcome(t) # "pass"
       THEN /\ tool' = [tool EXCEPT !.name = t, !.message = msg,
                                    !.outcome = GuardOutcome(t)]
            /\ UNCHANGED <<ws, sock, nextSock, token, baseUrl, intentionalClose,
                           pending, reqTimers, req, nextReq>>
       ELSE IF session # NULL
            THEN /\ ToolProceedAs(t, blk, msg)
                 /\ UNCHANGED <<ws, sock, nextSock, token, baseUrl,
                                intentionalClose>>
            ELSE /\ tool' = [tool EXCEPT !.name = t, !.outcome = "waiting",
                                         !.waiting = t, !.blocked = blk,
                                         !.message = msg,
                                         !.connectStarted = TRUE]
                 /\ IF tool.connectStarted
                    THEN UNCHANGED <<ws, sock, nextSock, token, baseUrl,
                                     intentionalClose>>
                    ELSE /\ baseUrl' = Some("url")
                         /\ token' = Some("tok")
                         /\ intentionalClose' = FALSE
                         /\ DoConnect("connect")
                 /\ UNCHANGED <<pending, reqTimers, req, nextReq>>
    /\ UNCHANGED <<session, activePlaceId, events, nEvents, reconnecting,
                   reconnectAttempt, reconnTimers, crashed, drained, peeked,
                   login>>

ToolCall(t, blk) == ToolCallWith(t, blk, "none")

\* the handler that waits goes on when the connect promise is settled: a
\* rejection ends it, a resolution lets it proceed
ToolResume ==
    /\ ~crashed
    /\ tool.waiting # "none"
    /\ ConnectSettled
    /\ IF ConnectRejected
       THEN /\ tool' = [tool EXCEPT !.waiting = "none", !.blocked = FALSE,
                                    !.outcome = "connect_failed"]
            /\ UNCHANGED <<pending, reqTimers, req, nextReq>>
       ELSE ToolProceedAs(tool.waiting, tool.blocked, tool.message)
    /\ UNCHANGED <<ws, sock, nextSock, token, baseUrl, intentionalClose,
                   session, activePlaceId, events, nEvents, reconnecting,
                   reconnectAttempt, reconnTimers, crashed, drained, peeked,
                   login>>

\* ---- the specification of the connection and the correlation of requests
\* (the readers of the event buffer, drainEvents and peekEvents, touch the
\* buffer alone and have the specifications SpecBuffer and SpecEvents)

Next ==
    \/ \E h \in BOOLEAN : Connect(h)
    \/ \E s \in Sockets : WsOpen(s)
    \/ \E s \in Sockets : WsMessageBadJson(s)
    \/ \E s \in Sockets : WsSessionCreated(s, SessionFrame(s))
    \/ \E s \in Sockets : \E f \in Frames(s) : WsFrame(s, f)
    \/ \E s \in Sockets : WsError(s)
    \/ \E s \in Sockets : WsClose(s)
    \/ \E i \in 1..(2 * MaxSockets) : ReconnectTimer(i)
    \/ \E m \in ReqTypes : SendRequest(m)
    \/ \E r \in CorrIds : RequestTimeout(r)
    \/ \E r \in CorrIds : SendCallback(r)
    \/ Disconnect
    \/ \E p \in Places : SetActivePlace(p)

Spec == Init /\ [][Next]_vars

\* ---- the same client when its caller never calls disconnect: the
\* reconnection runs on, and the caller may call connect again

NextNoDisconnect ==
    \/ \E h \in BOOLEAN : Connect(h)
    \/ \E s \in Sockets : WsOpen(s)
    \/ \E s \in Sockets : WsMessageBadJson(s)
    \/ \E s \in Sockets : WsSessionCreated(s, SessionFrame(s))
    \/ \E s \in Sockets : \E f \in Frames(s) : WsFrame(s, f)
    \/ \E s \in Sockets : WsError(s)
    \/ \E s \in Sockets : WsClose(s)
    \/ \E i \in 1..(2 * MaxSockets) : ReconnectTimer(i)
    \/ \E m \in ReqTypes : SendRequest(m)
    \/ \E r \in CorrIds : RequestTimeout(r)
    \/ \E r \in CorrIds : SendCallback(r)
    \/ \E p \in Places : SetActivePlace(p)

SpecNoDisconnect == Init /\ [][NextNoDisconnect]_vars

\* ---- the event buffer on its own: bufferEvent and drainEvents, up to
\* MaxAppends events

\* the frames that carry no correlationId
EventFrames == {f \in DataFrames : f.corr = 0}

NextBuffer ==
    \/ \E f \in EventFrames : BufferEventCall(f)
    \/ DrainEvents

SpecBuffer == Init /\ [][NextBuffer]_vars

\* ---- the readers of the event buffer: the client is connected (connect,
\* open, session announcement on socket 1), all but the last MaxPeekAppends
\* of the MaxAppends events have been buffered and drained

ConnectedSock ==
    [state |-> "OPEN", settled |-> TRUE, origin |-> "connect",
     result |-> "resolved", calls |-> 1,
     value |-> Some(SessionInfo(SessionFrame(1)))]

InitEvents ==
    /\ ws = 1
    /\ sock = [s \in Sockets |-> IF s = 1 THEN ConnectedSock ELSE FreeSock]
    /\ nextSock = 2
    /\ token = Some("tok")
    /\ baseUrl = Some("url")
    /\ pending = {}
    /\ reqTimers = {}
    /\ req = [r \in ReqIds |-> NoReq]
    /\ nextReq = 1
    /\ session = Some(SessionInfo(SessionFrame(1)))
    /\ activePlaceId = NoPlace
    /\ events = <<>>
    /\ nEvents = MaxAppends - MaxPeekAppends
    /\ reconnecting = FALSE
    /\ reconnectAttempt = 0
    /\ intentionalClose = FALSE
    /\ reconnTimers = <<>>
    /\ crashed = FALSE
    /\ drained = <<>>
    /\ peeked = <<>>
    /\ login = NoLogin
    /\ tool = NoTool

\* the frames bufferEvent is called with: unsolicited events, and responses
\* that match no pending request
UnmatchedFrames == {f \in DataFrames : f.corr <= 1}

NextEvents ==
    \/ \E f \in UnmatchedFrames : BufferEventCall(f)
    \/ DrainEvents
    \/ PeekEvents
    \/ ListCareStatus

SpecEvents == InitEvents /\ [][NextEvents]_vars

\* ---- frame dispatch on an Open client: connect, open and the session
\* announcement on socket 1 are done; requests are issued and time out, and
\* frames arrive, well-formed or not

InitOpen ==
    /\ ws = 1
    /\ sock = [s \in Sockets |-> IF s = 1 THEN ConnectedSock ELSE FreeSock]
    /\ nextSock = 2
    /\ token = Some("tok")
    /\ baseUrl = Some("url")
    /\ pending = {}
    /\ reqTimers = {}
    /\ req = [r \in ReqIds |-> NoReq]
    /\ nextReq = 1
    /\ session = Some(SessionInfo(SessionFrame(1)))
    /\ activePlaceId = NoPlace
    /\ events = <<>>
    /\ nEvents = 0
    /\ reconnecting = FALSE
    /\ reconnectAttempt = 0
    /\ intentionalClose = FALSE
    /\ reconnTimers = <<>>
    /\ crashed = FALSE
    /\ drained = <<>>
    /\ peeked = <<>>
    /\ login = NoLogin
    /\ tool = NoTool

NextDispatch ==
    \/ \E m \in ReqTypes : SendRequest(m)
    \/ \E r \in CorrIds : RequestTimeout(r)
    \/ \E r \in CorrIds : SendCallback(r)
    \/ \E s \in Sockets : WsMessageBadJson(s)
    \/ \E s \in Sockets : \E f \in DataFrames : WsFrame(s, f)
    \/ \E s \in Sockets : \E m \in MalformedFrames : WsMalformed(s, m)

SpecDispatch == InitOpen /\ [][NextDispatch]_vars

\* ---- the tools over a fresh client: ARCUS_ENABLE_WRITE is set or not, the
\* tools are called in any order while the transport opens, announces its
\* session, fails and is retried, and the active place is set

InitTools ==
    /\ ws = 0
    /\ sock = [s \in Sockets |-> FreeSock]
    /\ nextSock = 1
    /\ token = NULL
    /\ baseUrl = NULL
    /\ pending = {}
    /\ reqTimers = {}
    /\ req = [r \in ReqIds |-> NoReq]
    /\ nextReq = 1
    /\ session = NULL
    /\ activePlaceId = NoPlace
    /\ events = <<>>
    /\ nEvents = 0
    /\ reconnecting = FALSE
    /\ reconnectAttempt = 0
    /\ intentionalClose = FALSE
    /\ reconnTimers = <<>>
    /\ crashed = FALSE
    /\ drained = <<>>
    /\ peeked = <<>>
    /\ login = NoLogin
    /\ \E w \in BOOLEAN : tool = [NoTool EXCEPT !.writeEnabled = w]

NextTools ==
    \/ \E t \in Tools : \E blk \in BOOLEAN : ToolCall(t, blk)
    \/ ToolResume
    \/ \E s \in Sockets : WsOpen(s)
    \/ \E s \in Sockets : WsSessionCreated(s, SessionFrame(s))
    \/ \E s \in Sockets : WsError(s)
    \/ \E s \in Sockets : WsClose(s)
    \/ \E i \in 1..(2 * MaxSockets) : ReconnectTimer(i)
    \/ \E p \in Places : SetActivePlace(p)

SpecTools == InitTools /\ [][NextTools]_vars

\* ---- the states of the connection manager, as the specification names them

\* Open: the session announcement has been received on the current transport
ClientOpen ==
    ws # 0 /\ sock[ws].state = "OPEN" /\ sock[ws].result = "resolved"

\* no transport of this client has delivered its session announcement yet
NeverOpen == \A s \in Sockets : sock[s].result # "resolved"

\* what the frame-classification rule asks of a step that handles frame f
Delivered(f) ==
    /\ req[f.corr].status = "pending"
    /\ req'[f.corr].status = "resolved"
    /\ req'[f.corr].resp = f
    /\ req'[f.corr].calls = 1
    /\ pending' = pending \ {f.corr}
    /\ reqTimers' = reqTimers \ {f.corr}
    /\ \A r \in CorrIds \ {f.corr} : req'[r] = req[r]
    /\ events' = events
Buffered(f) ==
    /\ Len(events') = Len(events) + 1
    /\ SubSeq(events', 1, Len(events)) = events
    /\ events'[Len(events')].messageType = f.mtype
    /\ req' = req
    /\ pending' = pending
    /\ reqTimers' = reqTimers
Routed(f) ==
    IF f.corr # 0 /\ f.corr \in pending THEN Delivered(f) ELSE Buffered(f)

\* the step changes what the routing code writes: the event buffer, a
\* request's promise, the pending table or a request timer
RoutingChanged ==
    events' # events \/ req' # req \/ pending' # pending
        \/ reqTimers' # reqTimers

\* ---- claims

\* C1: when a transport closes, every request that is still outstanding fails
\* with the connection-lost error and the pending table is empty afterwards.
C1_CloseFailsAllOutstanding ==
    [][\A s \in Sockets :
          (sock[s].state # "CLOSED" /\ sock'[s].state = "CLOSED")
          => /\ pending' = {}
             /\ \A r \in CorrIds :
                   req[r].status = "pending" => req'[r].status = "closed"]_vars

\* C1 witness: two requests were outstanding together and both failed with
\* the connection-lost error.
C1_Witness ==
    /\ \A r \in CorrIds : req[r].status = "closed"
    /\ pending = {}

C3_ResponseCarriesOwnId ==
    \A r \in CorrIds : req[r].status = "resolved" => req[r].resp.corr = r

\* C3 witness: the second of two outstanding requests is answered first.
C3_Witness ==
    /\ req[2].status = "resolved"
    /\ req[1].status = "pending"

\* C4: a request whose timeout fires fails with the timeout error and leaves
\* the pending table; a frame that carries its correlationId afterwards is
\* appended to the event buffer and delivered to no caller.
C4_TimeoutThenLateFrameBuffered ==
    [][/\ \A r \in CorrIds :
             (req[r].status = "pending" /\ RequestTimeout(r))
             => (req'[r].status = "timeout" /\ r \notin pending')
       /\ RoutingChanged
          => \A s \in Sockets : \A f \in DataFrames :
                (f.corr # 0 /\ req[f.corr].status = "timeout" /\ WsFrame(s, f))
                => Buffered(f)]_vars

\* C4 witness: the only request issued timed out, and a response frame (which
\* carries its correlationId) lies in the event buffer.
C4_Witness ==
    /\ req[1].status = "timeout"
    /\ nextReq = 2
    /\ 1 \notin pending
    /\ Len(events) = 1
    /\ events[1].messageType \in RespTypes

\* C5: in every state other than Open a sendRequest call registers no pending
\* entry, arms no timeout and transmits nothing.
C5_SendRequestFailsUnlessOpen ==
    [][\A m \in ReqTypes :
          (~ClientOpen /\ SendRequest(m))
          => UNCHANGED <<pending, reqTimers, req, nextReq>>]_vars

\* C6: connect called while the client is Open opens no new transport and
\* leaves the transport, the session and the pending requests unchanged.
C6_ConnectIdempotentWhileOpen ==
    [][\A h \in BOOLEAN :
          (ClientOpen /\ Connect(h))
          => UNCHANGED <<ws, sock, nextSock, session, pending, reqTimers, req>>]_vars

\* C7: the result of a connect call resolves when, and only when, the session
\* announcement is received on the transport the call opened, and with the
\* subject id and place list of that frame.
C7_ConnectResolvesOnAnnouncement ==
    [][\A s \in Sockets :
          sock[s].origin = "connect"
          => /\ (sock[s].result # "resolved" /\ sock'[s].result = "resolved")
                => WsSessionCreated(s, SessionFrame(s))
             /\ WsSessionCreated(s, SessionFrame(s))
                => /\ sock'[s].result = "resolved"
                   /\ sock'[s].value = Some(SessionInfo(SessionFrame(s)))]_vars

\* C8: a connect call is rejected when its transport emits an error or closes
\* before the session announcement has resolved it, and resolve / reject are
\* called once in all, also when an error is followed by a close.
C8_ConnectRejectedOnce ==
    [][\A s \in Sockets :
          sock[s].origin = "connect"
          => /\ ((WsError(s) \/ WsClose(s)) /\ sock[s].result # "resolved")
                => sock'[s].result = "rejected"
             /\ sock'[s].calls <= 1
             /\ sock'[s].state = "CLOSED" => sock'[s].calls = 1]_vars

\* C8 witness: the transport of a connect call has closed and the call was
\* rejected, by one call of reject.
C8_Witness ==
    \E s \in Sockets :
        /\ sock[s].origin = "connect"
        /\ sock[s].state = "CLOSED"
        /\ sock[s].result = "rejected"
        /\ sock[s].calls = 1

\* C9: as long as no transport of the client has reached Open, no retry is
\* scheduled and no transport is opened by a reconnection attempt.
C9_InitialFailureNoReconnect ==
    NeverOpen
    => /\ reconnTimers = <<>>
       /\ ~reconnecting
       /\ \A s \in Sockets : sock[s].origin # "reconnect"

\* C10: when the current transport closes while the client is Open, the
\* session is cleared and one reconnection attempt is scheduled; the session
\* becomes present again only by a session announcement.
C10_UnplannedCloseClearsSession ==
    [][/\ \A s \in Sockets :
             (ClientOpen /\ s = ws /\ ~intentionalClose /\ WsClose(s))
             => /\ session' = NULL
                /\ reconnecting'
                /\ Len(reconnTimers') = Len(reconnTimers) + 1
       /\ (session = NULL /\ session' # NULL)
             => \E s \in Sockets : WsSessionCreated(s, SessionFrame(s))]_vars

\* C10 witness: the transport that was Open has closed, the session is absent
\* and a retry is scheduled.
C10_Witness ==
    /\ ws # 0
    /\ sock[ws].state = "CLOSED"
    /\ sock[ws].result = "resolved"
    /\ session = NULL
    /\ reconnecting
    /\ Len(reconnTimers) = 1

\* C11: an attempt of the reconnect timer fails in the step that rejects its
\* promise (an error, or a close before the session announcement); that step
\* advances the backoff index by one and arms one retry, with the delay the
\* sequence gives for the index, and the later events of the failed transport
\* arm no retry.
C11_FailedAttemptSchedulesOneRetry ==
    [][\A s \in Sockets :
          (sock[s].origin = "reconnect" /\ ~intentionalClose
              /\ (WsError(s) \/ WsClose(s)))
          => IF sock[s].result = "pending"
             THEN /\ reconnectAttempt' = reconnectAttempt + 1
                  /\ reconnTimers' =
                        Append(reconnTimers, DelayFor(reconnectAttempt))
             ELSE sock[s].result = "rejected"
                  => UNCHANGED <<reconnectAttempt, reconnTimers>>]_vars

\* C12: the backoff index returns to zero only in the step that receives the
\* session announcement of a transport; a reconnection that succeeds leaves
\* the index at zero, and the retry armed when that transport then closes
\* waits the first delay of the sequence.
C12_IndexResetOnlyOnSuccess ==
    [][/\ (reconnectAttempt # 0 /\ reconnectAttempt' = 0)
             => \E s \in Sockets :
                   /\ WsSessionCreated(s, SessionFrame(s))
                   /\ sock'[s].result = "resolved"
       /\ \A s \in Sockets :
             (sock[s].origin = "reconnect"
                 /\ WsSessionCreated(s, SessionFrame(s))
                 /\ sock'[s].result = "resolved")
             => reconnectAttempt' = 0
       /\ \A s \in Sockets :
             (sock[s].origin = "reconnect" /\ sock[s].result = "resolved"
                 /\ sock[s].state = "OPEN" /\ ~intentionalClose /\ WsClose(s))
             => reconnTimers' = Append(reconnTimers, RECONNECT_DELAYS[1])]_vars

\* C13: when the session announcement arrives on a transport opened by the
\* reconnect timer, the reconnection completes: its promise resolves, the
\* session is present and the reconnecting flag is cleared; if an active place
\* is set while reconnecting, the same step issues a sess:SetActivePlace
\* request for it on that transport.
C13_ReconnectRestoresPlaceAndCompletes ==
    [][\A s \in Sockets :
          (sock[s].origin = "reconnect" /\ WsSessionCreated(s, SessionFrame(s)))
          => /\ sock'[s].result = "resolved"
             /\ session' = Some(SessionInfo(SessionFrame(s)))
             /\ ~reconnecting'
             /\ ~crashed'
             /\ RestoresPlace
                => /\ nextReq' = nextReq + 1
                   /\ req'[nextReq].mtype = SET_ACTIVE_PLACE
                   /\ req'[nextReq].placeId = activePlaceId
                   /\ req'[nextReq].sock = s
                   /\ nextReq \in pending']_vars

\* C14: disconnect cancels the reconnect timers that are armed, so that none
\* of them is left to fire when the caller calls connect again.
C14_DisconnectCancelsRetries ==
    [][/\ Disconnect => reconnTimers' = <<>>
       /\ \A h \in BOOLEAN :
             (intentionalClose /\ Connect(h) /\ ~intentionalClose')
             => reconnTimers = <<>>]_vars

\* C15: a disconnect call leaves the client disconnected: no transport the
\* client created is connecting or open any more, this.ws and the session are
\* absent and reconnection is suppressed; a second call right after it
\* changes no state.
C15_DisconnectClosesAndIsIdempotent ==
    [][Disconnect
       => /\ ws' = 0
          /\ session' = NULL
          /\ intentionalClose'
          /\ \A s \in Sockets : sock'[s].state \notin {"CONNECTING", "OPEN"}
          /\ (intentionalClose /\ ws = 0 /\ session = NULL) => UNCHANGED vars]_vars

\* C16: the closure of a transport that disconnect closed fails every
\* outstanding request, empties the pending table and arms no reconnect
\* timer.
C16_DisconnectFailsPendingNoReconnect ==
    [][\A s \in Sockets :
          (sock[s].state \in {"CLOSING", "ABORTED"}
              /\ (WsClose(s) \/ WsError(s)))
          => /\ WsClose(s)
                => /\ pending' = {}
                   /\ \A r \in CorrIds :
                         req[r].status = "pending" => req'[r].status = "closed"
             /\ reconnTimers' = reconnTimers
             /\ reconnecting' = reconnecting]_vars

\* the transports that are connecting or open
LiveSockets == {s \in Sockets : sock[s].state \in {"CONNECTING", "OPEN"}}

\* C17: at most one transport the client created is connecting or open.
C17_AtMostOneLiveTransport == Cardinality(LiveSockets) <= 1

\* the event bufferEvent builds for frame f at the current clock
NewEvent(f) == [timestamp |-> nEvents + 1, messageType |-> f.mtype]

\* the k most recent elements of seq, in order
MostRecent(seq, k) == [i \in 1..k |-> seq[Len(seq) - k + i]]

\* C18: the event buffer never holds more than MAX_EVENT_BUFFER events; a
\* bufferEvent call leaves in it the most recent min(n + 1, MAX_EVENT_BUFFER)
\* of the n events it held and the new one, in arrival order, and in every
\* state the buffer is the run of the most recent events appended.
C18_BufferKeepsMostRecent ==
    [][/\ Len(events') <= MAX_EVENT_BUFFER
       /\ \A f \in DataFrames :
             BufferEventCall(f)
             => LET all == Append(events, NewEvent(f))
                IN  events' = MostRecent(all, Min(Len(all), MAX_EVENT_BUFFER))
       /\ \A i \in 1..Len(events') :
             events'[i].timestamp = nEvents' - Len(events') + i]_vars

\* C18 witness: MaxAppends events were appended and none drained; the buffer
\* holds the last MAX_EVENT_BUFFER of them and the oldest ones are gone.
C18_Witness ==
    /\ nEvents = MaxAppends
    /\ drained = <<>>
    /\ Len(events) = MAX_EVENT_BUFFER
    /\ events[1].timestamp = MaxAppends - MAX_EVENT_BUFFER + 1
    /\ events[MAX_EVENT_BUFFER].timestamp = MaxAppends

\* the events of seq are in arrival order
InArrivalOrder(seq) ==
    \A i, j \in 1..Len(seq) : i < j => seq[i].timestamp < seq[j].timestamp

\* every event of seq arrived before every event of later
AllBefore(seq, later) ==
    \A i \in 1..Len(seq) : \A j \in 1..Len(later) :
        seq[i].timestamp < later[j].timestamp

\* C19: a drainEvents call returns the whole buffer, in arrival order, and
\* leaves it empty in the same step, so that a peekEvents or drainEvents right
\* after it returns nothing; no event is both returned and retained, two
\* drains in a row return no event in common, an event appended below the
\* capacity joins the buffer behind the others, and only bufferEvent and
\* drainEvents change the buffer.
C19_DrainReturnsAllOnce ==
    [][/\ DrainEvents
          => /\ drained' = events
             /\ events' = <<>>
             /\ InArrivalOrder(drained')
             /\ AllBefore(drained, drained')
       /\ (events = <<>> /\ PeekEvents) => peeked' = <<>>
       /\ (events = <<>> /\ DrainEvents) => drained' = <<>>
       /\ AllBefore(drained', events')
       /\ \A f \in DataFrames :
             (Len(events) < MAX_EVENT_BUFFER /\ BufferEventCall(f))
             => events' = Append(events, NewEvent(f))
       /\ events' # events
          => (DrainEvents \/ \E f \in DataFrames : BufferEventCall(f))]_vars

\* C19 witness: a drain returned two events, and an event appended after it
\* is in the buffer, not in what the drain returned.
C19_Witness ==
    /\ Len(drained) = 2
    /\ Len(events) = 1
    /\ AllBefore(drained, events)

\* C20: a peekEvents call returns the buffer as it is and changes neither the
\* buffer nor anything else of the client; the list_care_status tool leaves
\* the buffer unchanged as well; a bufferEvent or drainEvents call made later
\* leaves the array a peek returned as it was.
C20_PeekIsSnapshot ==
    [][/\ PeekEvents
          => /\ peeked' = events
             /\ events' = events
             /\ drained' = drained
       /\ ListCareStatus => events' = events
       /\ \A f \in DataFrames : BufferEventCall(f) => peeked' = peeked
       /\ DrainEvents => peeked' = peeked]_vars

\* C20 witness: a peek returned the one event buffered, a second event was
\* appended after it, and the array returned still holds the first alone.
C20_Witness ==
    /\ Len(peeked) = 1
    /\ Len(events) = 2
    /\ events[1] = peeked[1]
    /\ session # NULL

\* C21: the close handling of a transport and the reconnection that follows
\* (the error and close handlers, the reconnect timer, the open handler and
\* the session announcement) leave the event buffer and the active place as
\* they were, and the active place changes in setActivePlace calls only.
C21_CloseKeepsEventsAndPlace ==
    [][/\ (\/ \E s \in Sockets :
                 \/ WsClose(s)
                 \/ WsError(s)
                 \/ WsOpen(s)
                 \/ WsSessionCreated(s, SessionFrame(s))
           \/ \E i \in 1..(2 * MaxSockets) : ReconnectTimer(i))
          => /\ events' = events
             /\ activePlaceId' = activePlaceId
       /\ activePlaceId' # activePlaceId
          => \E p \in Places : SetActivePlace(p)]_vars

\* C21 witness: the client was Open with an active place and one buffered
\* event, its transport closed unplanned, and a transport of the reconnect
\* timer is Open: the event and the active place are still there.
C21_Witness ==
    /\ ws # 0
    /\ sock[ws].origin = "reconnect"
    /\ sock[ws].state = "OPEN"
    /\ sock[ws].result = "resolved"
    /\ sock[1].state = "CLOSED"
    /\ sock[1].result = "resolved"
    /\ Len(events) = 1
    /\ activePlaceId = "P1"

C23_MalformedFrameDropped ==
    [][\A s \in Sockets :
          (\/ WsMessageBadJson(s)
           \/ \E m \in MalformedFrames : WsMalformed(s, m))
          => /\ UNCHANGED <<req, pending, reqTimers, events, ws, sock, session>>
             /\ ~crashed']_vars

\* the step leaves every request other than r as it is: its promise, its
\* entry in the pending table and its timer
OthersUntouched(r) ==
    \A q \in CorrIds \ {r} :
        /\ req'[q] = req[q]
        /\ (q \in pending') = (q \in pending)
        /\ (q \in reqTimers') = (q \in reqTimers)

\* C24: a step that settles one request, by a frame that carries its
\* correlationId or by its own timeout, leaves every other request as it is
\* (still pending, its timer armed) and leaves the transport and the session
\* unchanged; the frame may answer any of the outstanding requests, whatever
\* the order of issuance.
C24_SettlingOneLeavesOthers ==
    [][/\ \A r \in CorrIds :
             RequestTimeout(r)
             => /\ OthersUntouched(r)
                /\ UNCHANGED <<ws, sock, session>>
       /\ RoutingChanged
          => \A s \in Sockets : \A f \in DataFrames :
                (Matches(f) /\ WsFrame(s, f))
                => /\ req'[f.corr].status = "resolved"
                   /\ OthersUntouched(f.corr)
                   /\ UNCHANGED <<ws, sock, session>>]_vars

\* C24 witness: of two requests outstanding together on the Open client the
\* one issued last has been answered, and the first is still pending with
\* its timer armed.
C24_Witness ==
    /\ req[2].status = "resolved"
    /\ req[1].status = "pending"
    /\ 1 \in pending
    /\ 1 \in reqTimers
    /\ ClientOpen
    /\ session # NULL

\* C25: the session is present only while the client is Open, and it is then
\* the session the announcement of the current transport carried: it is
\* absent while no transport has delivered an announcement, and absent
\* whenever the current transport is missing, not open or not yet announced.
C25_SessionOnlyWhileOpen ==
    /\ NeverOpen => session = NULL
    /\ session # NULL => (ClientOpen /\ session = sock[ws].value)

\* C26: a frame other than the session announcement that arrives on a
\* transport before that transport's announcement is not treated as
\* meaningful: the step that handles it settles no request and leaves the
\* pending table, the request timers and the event buffer as they were.
C26_NoFrameBeforeAnnouncement ==
    [][RoutingChanged
       => \A s \in Sockets : \A f \in DataFrames :
             (sock[s].result = "pending" /\ WsFrame(s, f))
             => UNCHANGED <<req, pending, reqTimers, events>>]_vars

\* C27 as stated: a login call makes one HTTP exchange and succeeds, returning
\* the token, if and only if the status of the response is a success or
\* redirect status (200..399) and the response carries the irisAuthToken
\* cookie; otherwise it fails, and it never retries.
C27_LoginIffSuccessOrRedirect ==
    login.phase = "done"
    => /\ login.fetches = 1
       /\ login.result = "token"
          <=> /\ login.reached
              /\ 200 <= login.status /\ login.status <= 399
              /\ HasTokenCookie(login.cookies)
       /\ login.result # "token" => login.value = NULL

\* C27 amended: a login call makes one HTTP exchange and succeeds if and only
\* if the status of the response is 200..299 or 302 and a Set-Cookie header
\* carries irisAuthToken with a value; it then returns, and stores as the
\* client's token, the value of the first such cookie; in every other case
\* (another redirect status among them) it fails, and it never retries.
C27_LoginIffOkOr302 ==
    login.phase = "done"
    => /\ login.fetches = 1
       /\ login.result = "token"
          <=> /\ login.reached
              /\ (login.status \in 200..299 \/ login.status = 302)
              /\ HasTokenCookie(login.cookies)
       /\ login.result = "token"
          => /\ login.value = Some(FirstToken(login.cookies))
             /\ token = login.value
       /\ login.result # "token" => (login.value = NULL /\ token = NULL)

\* C27 witness: the response had status 302 and two cookies, the second of
\* them the token; login returned its value after one exchange.
C27_Witness ==
    /\ login.phase = "done"
    /\ login.status = 302
    /\ Len(login.cookies) = 2
    /\ ~IsTokenCookie(login.cookies[1])
    /\ login.result = "token"
    /\ login.value = Some("T2")
    /\ login.fetches = 1

\* a transport of the client has delivered its session announcement
EverOpen == \E s \in Sockets : sock[s].result = "resolved"

\* a connection attempt is in flight: a transport is connecting, or open and
\* waiting for its announcement
AttemptInFlight ==
    \E s \in Sockets :
        sock[s].state \in {"CONNECTING", "OPEN"} /\ sock[s].result = "pending"

\* a transport has failed or is closing and its close event is still to come
CloseToCome ==
    \E s \in Sockets : sock[s].state \in {"ERRORED", "CLOSING", "ABORTED"}

\* C28: as long as disconnect is not called, a client that has been Open
\* keeps reconnecting: it is running (no exception has ended it) and in every
\* state it is Open, or a retry is armed, or an attempt is in flight, or the
\* close event that arms the retry is still to come; a client that is not
\* running never becomes Open again, whatever the bridge does.
C28_ReconnectionNeverGivesUp ==
    EverOpen
    => /\ ~crashed
       /\ (ClientOpen \/ reconnTimers # <<>> \/ AttemptInFlight \/ CloseToCome)

\* the tools the write guard is stated for
MutatingTools ==
    {"device_command", "arm_alarm", "disarm_alarm", "fire_scene",
     "create_rule", "delete_rule", "enable_rule", "disable_rule",
     "reboot_hub", "search_devices", "doorlock_buzz_in",
     "doorlock_authorize_person", "doorlock_deauthorize_person",
     "zwave_heal", "zwave_cancel_heal", "zwave_remove_zombie",
     "send_message"}

\* the step starts no connection and registers or transmits no request
NothingSent ==
    /\ UNCHANGED <<ws, sock, nextSock, token, baseUrl, intentionalClose>>
    /\ UNCHANGED <<req, pending, reqTimers, nextReq>>
    /\ tool'.connectStarted = tool.connectStarted
    /\ tool'.waiting = tool.waiting

\* C29 as stated: while writes are not enabled, a call of a mutating tool
\* returns the write-disabled error and transmits no request to the bridge,
\* whatever its arguments and the state of the client.
C29_WriteDisabledError ==
    [][(tool' # tool /\ ~tool.writeEnabled)
       => \A t \in MutatingTools : \A blk \in BOOLEAN :
             ToolCall(t, blk)
             => /\ tool'.outcome = "write_disabled"
                /\ NothingSent]_vars

\* C29 amended: while writes are not enabled, a call of a mutating tool
\* returns an error and neither starts a connection nor transmits a request,
\* whatever its arguments and the state of the client; the error is the
\* write-disabled error, except that a tool which is also place-scoped (all
\* of them but send_message) returns the no-active-place error while no
\* active place is set; and no command is ever handed to the transport.
C29_WriteDisabledNothingSent ==
    [][/\ (tool' # tool /\ ~tool.writeEnabled)
          => \A t \in MutatingTools : \A blk \in BOOLEAN :
                ToolCall(t, blk)
                => /\ tool'.outcome =
                         IF t # "send_message" /\ activePlaceId = NoPlace
                         THEN "no_place" ELSE "write_disabled"
                   /\ NothingSent
       /\ ~tool.writeEnabled
          => \A r \in CorrIds : req'[r].mtype # "command"]_vars

\* C29 witness: writes are not enabled, the client is Open with a session and
\* an active place, and a device_command call has returned the write-disabled
\* error.
C29_Witness ==
    /\ ~tool.writeEnabled
    /\ ClientOpen
    /\ session # NULL
    /\ activePlaceId # NoPlace
    /\ tool.name = "device_command"
    /\ tool.outcome = "write_disabled"

\* the tools the place guard is stated for
PlaceScopedTools ==
    {"list_devices", "get_device", "get_devices", "device_command",
     "list_history", "list_persons", "delete_rule", "fire_scene", "get_hub",
     "reboot_hub"}

\* C30: while no active place is set, a call of a place-scoped tool returns
\* the no-active-place error, whether writes are enabled or not, and it
\* starts no connection and transmits no request to the bridge.
C30_NoPlaceNothingSent ==
    [][(tool' # tool /\ activePlaceId = NoPlace)
       => \A t \in PlaceScopedTools : \A blk \in BOOLEAN :
             ToolCall(t, blk)
             => /\ tool'.outcome = "no_place"
                /\ NothingSent]_vars

\* C30 witness: on a client that was never connected and has no active place
\* a list_devices call has returned the no-active-place error; no connection
\* has been started and no request issued.
C30_Witness ==
    /\ activePlaceId = NoPlace
    /\ tool.name = "list_devices"
    /\ tool.outcome = "no_place"
    /\ ~tool.connectStarted
    /\ ws = 0
    /\ nextSock = 1
    /\ nextReq = 1

\* ---- the blocklist of device_command and send_message

\* BLOCKED_MESSAGE_TYPES: five literals and twelve constants of
\* capabilities.ts, named here by the message types the command reference
\* (docs/arcus-commands.md) gives them
BLOCKED_MESSAGE_TYPES ==
    {"account:Delete", "hub:Delete", "hub:Deregister", "hubadv:FactoryReset",
     "place:Delete", "place:RemoveDevice", "place:RemovePerson",
     "person:Delete", "person:RemoveFromPlace", "person:ChangePin",
     "person:SetPassword", "person:ChangePassword", "dev:Remove",
     "dev:ForceRemove", "scene:Delete", "rule:Delete", "base:Remove"}

\* the command reference marks hubadv:Deregister as blocked: it is the
\* message type that deregisters a hub
HUB_DEREGISTER == "hubadv:Deregister"

\* the destructive message types: those of the blocklist and the
\* deregistration of a hub
DestructiveTypes == BLOCKED_MESSAGE_TYPES \cup {HUB_DEREGISTER}

\* the message types a caller gives: the destructive ones and a harmless one
MessageTypes == DestructiveTypes \cup {"base:SetAttributes"}

\* BLOCKED_MESSAGE_TYPES.has(m)
Blocked(m) == m \in BLOCKED_MESSAGE_TYPES

\* a call of device_command with commandName m, or of send_message with
\* messageType m
MessageCall(t, m) ==
    /\ t \in BlocklistTools
    /\ m \in MessageTypes
    /\ ToolCallWith(t, Blocked(m), m)

\* the two tools over a fresh client, ARCUS_ENABLE_WRITE set or not, while
\* the transport opens, announces its session, fails and is retried, and the
\* active place is set
NextBlocklist ==
    \/ \E t \in BlocklistTools : \E m \in MessageTypes : MessageCall(t, m)
    \/ ToolResume
    \/ \E s \in Sockets : WsOpen(s)
    \/ \E s \in Sockets : WsSessionCreated(s, SessionFrame(s))
    \/ \E s \in Sockets : WsError(s)
    \/ \E s \in Sockets : WsClose(s)
    \/ \E i \in 1..(2 * MaxSockets) : ReconnectTimer(i)
    \/ \E p \in Places : SetActivePlace(p)

SpecBlocklist == InitTools /\ [][NextBlocklist]_vars

\* C31: each of the 18 destructive message types, given as the command of
\* device_command or as the messageType of send_message, is rejected with the
\* Blocked error once the guards of writes and place let the call pass, and
\* no request that carries such a message type is ever transmitted.
C31_DestructiveTypesBlocked ==
    /\ \A r \in CorrIds : req[r].mtype \notin DestructiveTypes
    /\ (tool.name \in BlocklistTools /\ tool.message \in DestructiveTypes
            /\ tool.outcome \notin {"none", "no_place", "write_disabled",
                                     "waiting"})
       => tool.outcome = "blocked"

\* ---- the lazy connection (ensureConnected)

\* mutant of HasConnectPromise: the cached promise is never found
HasConnectPromiseNever == FALSE

\* the test of ensureConnected: connectPromise has been assigned
HasConnectPromise == tool.connectStarted

\* the login of ensureConnected has returned the token
LoggedIn == login.phase = "done" /\ login.result = "token"
LoginRejected == login.phase = "done" /\ login.result # "token"

\* the sockets opened by a connect call
ConnectSockets == {s \in Sockets : sock[s].origin = "connect"}

\* connectPromise is settled: login rejected, or the promise of connect is
\* settled
PromiseSettled == LoginRejected \/ ConnectSettled

\* a tool handler calls ensureConnected(): with a session it returns a
\* resolved promise; otherwise the promise cached in connectPromise, which
\* the first such call creates by starting the async function: that one
\* calls connect at once when ARCUS_AUTH_TOKEN is set, and login otherwise
EnsureConnected ==
    /\ ~crashed
    /\ tool.calls < MaxCalls
    /\ IF session # NULL
       THEN /\ tool' = [tool EXCEPT !.calls = @ + 1]
            /\ UNCHANGED <<ws, sock, nextSock, token, baseUrl,
                           intentionalClose, login>>
       ELSE /\ tool' = [tool EXCEPT !.calls = @ + 1, !.waiters = @ + 1,
                                    !.connectStarted = TRUE]
            /\ IF HasConnectPromise
               THEN UNCHANGED <<ws, sock, nextSock, token, baseUrl,
                                intentionalClose, login>>
               ELSE IF tool.authToken
                    THEN /\ baseUrl' = Some("url")
                         /\ token' = Some("tok")
                         /\ intentionalClose' = FALSE
                         /\ DoConnect("connect")
                         /\ UNCHANGED login
                    ELSE /\ login' = [login EXCEPT !.phase = "awaiting",
                                                   !.fetches = @ + 1]
                         /\ UNCHANGED <<ws, sock, nextSock, token, baseUrl,
                                        intentionalClose>>
    /\ UNCHANGED <<pending, reqTimers, req, nextReq, session, activePlaceId,
                   events, nEvents, reconnecting, reconnectAttempt,
                   reconnTimers, crashed, drained, peeked>>

\* the async function of ensureConnected goes on after `await login(...)`:
\* it calls connect with the token
ConnectAfterLogin ==
    /\ ~crashed
    /\ ~tool.authToken
    /\ LoggedIn
    /\ ConnectSockets = {}
    /\ baseUrl' = Some("url")
    /\ token' = login.value
    /\ intentionalClose' = FALSE
    /\ DoConnect("connect")
    /\ UNCHANGED <<pending, reqTimers, req, nextReq, session, activePlaceId,
                   events, nEvents, reconnecting, reconnectAttempt,
                   reconnTimers, crashed, drained, peeked, login, tool>>

\* a handler that awaits connectPromise goes on once it is settled
EnsureConnectedSettles ==
    /\ ~crashed
    /\ tool.waiters > 0
    /\ PromiseSettled
    /\ tool' = [tool EXCEPT !.waiters = @ - 1]
    /\ UNCHANGED <<ws, sock, nextSock, token, baseUrl, pending, reqTimers, req,
                   nextReq, session, activePlaceId, events, nEvents,
                   reconnecting, reconnectAttempt, intentionalClose,
                   reconnTimers, crashed, drained, peeked, login>>

\* the login responses of this specification: accepted or refused, with the
\* token cookie or without
LazyStatuses == {200, 401}
LazyCookies == {<<>>, <<[name |-> TOKEN_COOKIE, value |-> "T1"]>>}

\* the server after construction: no tool has been called; ARCUS_AUTH_TOKEN
\* is set, or ARCUS_USERNAME and ARCUS_PASSWORD are
InitLazy ==
    /\ ws = 0
    /\ sock = [s \in Sockets |-> FreeSock]
    /\ nextSock = 1
    /\ token = NULL
    /\ baseUrl = NULL
    /\ pending = {}
    /\ reqTimers = {}
    /\ req = [r \in ReqIds |-> NoReq]
    /\ nextReq = 1
    /\ session = NULL
    /\ activePlaceId = NoPlace
    /\ events = <<>>
    /\ nEvents = 0
    /\ reconnecting = FALSE
    /\ reconnectAttempt = 0
    /\ intentionalClose = FALSE
    /\ reconnTimers = <<>>
    /\ crashed = FALSE
    /\ drained = <<>>
    /\ peeked = <<>>
    /\ login = NoLogin
    /\ \E a \in BOOLEAN : tool = [NoTool EXCEPT !.authToken = a]

NextLazy ==
    \/ EnsureConnected
    \/ ConnectAfterLogin
    \/ EnsureConnectedSettles
    \/ LoginFetchFailed
    \/ \E st \in LazyStatuses : \E cs \in LazyCookies : LoginResponse(st, cs)
    \/ \E s \in Sockets : WsOpen(s)
    \/ \E s \in Sockets : WsSessionCreated(s, SessionFrame(s))
    \/ \E s \in Sockets : WsError(s)
    \/ \E s \in Sockets : WsClose(s)
    \/ \E i \in 1..(2 * MaxSockets) : ReconnectTimer(i)

SpecLazy == InitLazy /\ [][NextLazy]_vars

\* C32: the connection is lazy and single-flight: before the first tool call
\* no login and no connect has been started, and whatever the number of
\* calls, those that overlap the connection in progress included,
\* ensureConnected starts at most one login (none when the token is
\* configured) and at most one connect.
C32_LazySingleFlight ==
    /\ tool.calls = 0
       => (login.fetches = 0 /\ ConnectSockets = {} /\ nextSock = 1)
    /\ login.fetches <= 1
    /\ Cardinality(ConnectSockets) <= 1
    /\ tool.authToken => login.fetches = 0

\* C32 witness: three ensureConnected calls overlap the first connection,
\* which followed a login and has not delivered its announcement yet; one
\* login and one connect have been started.
C32_Witness ==
    /\ tool.calls = 3
    /\ tool.waiters = 3
    /\ login.fetches = 1
    /\ Cardinality(ConnectSockets) = 1
    /\ \E s \in ConnectSockets : sock[s].result = "pending"
    /\ session = NULL

\* ---- the set_active_place tool

GET_ATTRIBUTES == "base:GetAttributes"
GET_HUB == "place:GetHub"
LIST_SUBSYSTEMS == "subs:ListSubsystems"
Phase2Types == {GET_HUB, LIST_SUBSYSTEMS}

\* the places a caller asks for
RequestedPlaces == {"P1", "P2"}

\* a promise of sendRequest is rejected: by its timeout, by the close of the
\* transport or by the error of the transmit
Rejected(r) == req[r].status \in {"timeout", "closed", "senderr"}

\* mutant of AllResolved: the handler goes on at the first response
SomeResolved(rs) == \E r \in rs : req[r].status = "resolved"

\* Promise.all over the requests rs is resolved, or rejected
AllResolved(rs) == \A r \in rs : req[r].status = "resolved"
SomeRejected(rs) == \E r \in rs : Rejected(r)

\* the handler up to its first await of requests: ensureConnected resolves
\* (with the session, or with the promise of the connection made before),
\* then sess:SetActivePlace and, with a session, base:GetAttributes are sent
\* (sendRequest throws unless this.ws is open)
SetActivePlaceCall(p) ==
    /\ ~crashed
    /\ tool.sap.phase \in {"idle", "failed", "threw", "done"}
    /\ p \in RequestedPlaces
    /\ IF NotConnected
       THEN /\ tool' = [tool EXCEPT !.sap =
                          [NoSap EXCEPT !.phase = "threw", !.placeId = p,
                                        !.before = activePlaceId]]
            /\ UNCHANGED <<pending, reqTimers, req, nextReq>>
       ELSE LET ids == IF session # NULL THEN {nextReq, nextReq + 1}
                       ELSE {nextReq}
            IN  /\ ids \subseteq ReqIds
                /\ tool' = [tool EXCEPT !.sap =
                              [NoSap EXCEPT !.phase = "phase1", !.placeId = p,
                                            !.p1 = ids, !.setActive = nextReq,
                                            !.before = activePlaceId]]
                /\ req' = [r \in ReqIds |->
                             IF r = nextReq THEN NewReq(SET_ACTIVE_PLACE, p)
                             ELSE IF r \in ids
                                  THEN NewReq(GET_ATTRIBUTES, NoPlace)
                                  ELSE req[r]]
                /\ pending' = pending \cup ids
                /\ reqTimers' = reqTimers \cup ids
                /\ nextReq' = nextReq + Cardinality(ids)
    /\ UNCHANGED <<ws, sock, nextSock, token, baseUrl, session, activePlaceId,
                   events, nEvents, reconnecting, reconnectAttempt,
                   intentionalClose, reconnTimers, crashed, drained, peeked,
                   login>>

\* the handler after the Promise.all of phase 1: client.setActivePlace, then
\* place:GetHub and subs:ListSubsystems are sent
SetActivePlacePhase2 ==
    /\ ~crashed
    /\ tool.sap.phase = "phase1"
    /\ AllResolved(tool.sap.p1)
    /\ activePlaceId' = tool.sap.placeId
    /\ IF NotConnected
       THEN /\ tool' = [tool EXCEPT !.sap.phase = "threw"]
            /\ UNCHANGED <<pending, reqTimers, req, nextReq>>
       ELSE LET ids == {nextReq, nextReq + 1}
            IN  /\ ids \subseteq ReqIds
                /\ tool' = [tool EXCEPT !.sap.phase = "phase2", !.sap.p2 = ids]
                /\ req' = [r \in ReqIds |->
                             IF r = nextReq THEN NewReq(GET_HUB, NoPlace)
                             ELSE IF r \in ids
                                  THEN NewReq(LIST_SUBSYSTEMS, tool.sap.placeId)
                                  ELSE req[r]]
                /\ pending' = pending \cup ids
                /\ reqTimers' = reqTimers \cup ids
                /\ nextReq' = nextReq + 2
    /\ UNCHANGED <<ws, sock, nextSock, token, baseUrl, session, events, nEvents,
                   reconnecting, reconnectAttempt, intentionalClose,
                   reconnTimers, crashed, drained, peeked, login>>

\* the requests the handler awaits
Awaited ==
    CASE tool.sap.phase = "phase1" -> tool.sap.p1
      [] tool.sap.phase = "phase2" -> tool.sap.p2
      [] OTHER -> {}

\* a Promise.all of the handler rejects: the handler ends with the error
SetActivePlaceFailed ==
    /\ ~crashed
    /\ SomeRejected(Awaited)
    /\ tool' = [tool EXCEPT !.sap.phase = "failed"]
    /\ UNCHANGED <<ws, sock, nextSock, token, baseUrl, pending, reqTimers, req,
                   nextReq, session, activePlaceId, events, nEvents,
                   reconnecting, reconnectAttempt, intentionalClose,
                   reconnTimers, crashed, drained, peeked, login>>

\* the handler after the Promise.all of phase 2: it returns the summary
SetActivePlaceDone ==
    /\ ~crashed
    /\ tool.sap.phase = "phase2"
    /\ AllResolved(tool.sap.p2)
    /\ tool' = [tool EXCEPT !.sap.phase = "done"]
    /\ UNCHANGED <<ws, sock, nextSock, token, baseUrl, pending, reqTimers, req,
                   nextReq, session, activePlaceId, events, nEvents,
                   reconnecting, reconnectAttempt, intentionalClose,
                   reconnTimers, crashed, drained, peeked, login>>

\* a continuation of the handler is queued: promise reactions run before the
\* next timer or socket event
ContinuationDue ==
    /\ tool.sap.phase \in {"phase1", "phase2"}
    /\ AllResolved(Awaited) \/ SomeRejected(Awaited)

\* an Open client (frame dispatch as in SpecDispatch) whose active place is
\* not set, or was set by a call before
InitSetPlace ==
    /\ ws = 1
    /\ sock = [s \in Sockets |-> IF s = 1 THEN ConnectedSock ELSE FreeSock]
    /\ nextSock = 2
    /\ token = Some("tok")
    /\ baseUrl = Some("url")
    /\ pending = {}
    /\ reqTimers = {}
    /\ req = [r \in ReqIds |-> NoReq]
    /\ nextReq = 1
    /\ session = Some(SessionInfo(SessionFrame(1)))
    /\ activePlaceId \in {NoPlace, "P1"}
    /\ events = <<>>
    /\ nEvents = 0
    /\ reconnecting = FALSE
    /\ reconnectAttempt = 0
    /\ intentionalClose = FALSE
    /\ reconnTimers = <<>>
    /\ crashed = FALSE
    /\ drained = <<>>
    /\ peeked = <<>>
    /\ login = NoLogin
    /\ tool = [NoTool EXCEPT !.connectStarted = TRUE]

NextSetPlace ==
    \/ SetActivePlacePhase2
    \/ SetActivePlaceFailed
    \/ SetActivePlaceDone
    \/ ~ContinuationDue /\ \E p \in RequestedPlaces : SetActivePlaceCall(p)
    \/ ~ContinuationDue /\ \E r \in ReqIds : RequestTimeout(r)
    \/ ~ContinuationDue /\ \E r \in ReqIds : SendCallback(r)
    \/ ~ContinuationDue /\ \E s \in Sockets : \E f \in DataFrames : WsFrame(s, f)
    \/ ~ContinuationDue /\ \E s \in Sockets : WsError(s)
    \/ ~ContinuationDue /\ \E s \in Sockets : WsClose(s)

SpecSetPlace == InitSetPlace /\ [][NextSetPlace]_vars

\* C33: the phase-2 requests (place:GetHub, subs:ListSubsystems) are sent
\* only after the response to sess:SetActivePlace has been received, and the
\* active place is set, to the placeId asked for, only after both phase-1
\* requests have completed; when a phase-1 request fails (timeout, connection
\* loss) the active place is left as it was and no phase-2 request is sent.
C33_TwoPhasesInOrder ==
    [][/\ (\E r \in ReqIds :
              req[r].status = "none" /\ req'[r].mtype \in Phase2Types)
          => /\ tool.sap.phase = "phase1"
             /\ req[tool.sap.setActive].status = "resolved"
             /\ \A r \in tool.sap.p1 : req[r].status = "resolved"
       /\ activePlaceId' # activePlaceId
          => /\ tool.sap.phase = "phase1"
             /\ \A r \in tool.sap.p1 : req[r].status = "resolved"
             /\ activePlaceId' = tool.sap.placeId
       /\ (tool.sap.phase = "phase1" /\ SomeRejected(tool.sap.p1))
          => /\ tool'.sap.phase = "failed"
             /\ tool'.sap.p2 = {}
             /\ activePlaceId' = tool.sap.before
             /\ UNCHANGED <<req, pending, reqTimers, nextReq>>]_vars

\* C33 witness: both phase-1 requests were answered, the active place is the
\* place asked for (another one than before) and the two phase-2 requests
\* are outstanding.
C33_Witness ==
    /\ tool.sap.phase = "phase2"
    /\ tool.sap.p1 = {1, 2}
    /\ req[1].status = "resolved" /\ req[2].status = "resolved"
    /\ tool.sap.before = "P1"
    /\ activePlaceId = "P2"
    /\ tool.sap.p2 = {3, 4}
    /\ req[3].mtype = GET_HUB /\ req[3].status = "pending"
    /\ req[4].mtype = LIST_SUBSYSTEMS /\ req[4].status = "pending"

\* C40: set_active_place records the placeId as the active place only when
\* the bridge accepted the activation: when the response that carries the
\* correlationId of sess:SetActivePlace is an Error frame, the active place
\* keeps the value it had at the call, and so does what the place guard of
\* the other tools sees.
C40_RefusedActivationKeepsPlace ==
    (/\ tool.sap.setActive # 0
     /\ req[tool.sap.setActive].status = "resolved"
     /\ req[tool.sap.setActive].resp.mtype = "Error")
    => /\ activePlaceId = tool.sap.before
       /\ RequirePlace = (tool.sap.before = NoPlace)

\* the step takes the entry of request r out of the pending table, or
\* settles its promise
LeavesTable(r) == r \in pending /\ r \notin pending'
Settles(r) == req[r].status = "pending" /\ req'[r].status # "pending"

\* the three ways the specification names: the matching response, the
\* timeout, the forced failure at the close of the transport
ByResponse(r) ==
    /\ req'[r].status = "resolved"
    /\ req'[r].resp.corr = r
    /\ \E s \in Sockets : \E f \in DataFrames : f.corr = r /\ WsFrame(s, f)
ByTimeout(r) == req'[r].status = "timeout" /\ RequestTimeout(r)
ByClose(r) == req'[r].status = "closed" /\ \E s \in Sockets : WsClose(s)

\* C34 as stated: an entry leaves the pending table in exactly one of three
\* ways (matching response, timeout, forced failure at the close of the
\* transport), and no other event, the completion callback of the transmit
\* in particular, removes or settles a pending request.
C34_ThreeWaysOut ==
    [][(pending' # pending \/ req' # req)
       => \A r \in CorrIds :
             (LeavesTable(r) \/ Settles(r))
             => /\ LeavesTable(r) /\ Settles(r)
                /\ r \notin reqTimers'
                /\ ByResponse(r) \/ ByTimeout(r) \/ ByClose(r)]_vars

\* C34 amended: an entry leaves the pending table in exactly one of four
\* ways: its matching response arrives, its timeout fires, it is force-failed
\* when a transport closes, or the completion callback of its transmit
\* reports an error; the step that removes it settles its promise
\* accordingly and cancels its timer, and no other event removes or settles
\* a pending request.
C34_FourWaysOut ==
    [][(pending' # pending \/ req' # req)
       => \A r \in CorrIds :
             (LeavesTable(r) \/ Settles(r))
             => /\ LeavesTable(r) /\ Settles(r)
                /\ r \notin reqTimers'
                /\ ByResponse(r) \/ ByTimeout(r) \/ ByClose(r)
                       \/ (req'[r].status = "senderr" /\ SendCallback(r))]_vars

\* C34 witness: of two requests outstanding together the first has left the
\* table by the error of its transmit and the second by its timeout.
C34_Witness ==
    /\ req[1].status = "senderr"
    /\ req[2].status = "timeout"
    /\ pending = {}
    /\ reqTimers = {}

\* C35: in every reachable state at most one reconnection step is
\* outstanding: the retry timers that are armed and the reconnection attempts
\* in flight number one at most, so an attempt that fails (an error followed
\* by a close, or a close before the announcement) leaves one retry, not two.
C35_OneReconnectionStep ==
    Len(reconnTimers)
        + Cardinality({s \in Sockets : /\ sock[s].origin = "reconnect"
                                       /\ sock[s].result = "pending"})
    <= 1

\* C36: every request is settled at most once: the first of matching
\* response, timeout, transmit error and transport close to occur resolves
\* or rejects it, removes its entry and cancels its timer; whatever comes
\* later leaves the outcome and the response as they are and finds neither
\* the entry in the table nor the timer armed.
C36_SettledAtMostOnce ==
    [][\A r \in CorrIds :
          /\ Settles(r) => (r \notin pending' /\ r \notin reqTimers')
          /\ req[r].status \notin {"none", "pending"}
             => /\ req'[r].status = req[r].status
                /\ req'[r].resp = req[r].resp
                /\ r \notin pending /\ r \notin pending'
                /\ r \notin reqTimers /\ r \notin reqTimers']_vars

\* C36 witness: the request was resolved by its response; afterwards the
\* completion callback of its transmit reported an error and a second frame
\* with its correlationId arrived: the request is still resolved, with the
\* first response, and the late frame lies in the event buffer.
C36_Witness ==
    /\ req[1].status = "resolved"
    /\ req[1].calls = 2
    /\ ~req[1].sendCb
    /\ Len(events) = 1
    /\ events[1].messageType \in RespTypes
    /\ events[1].messageType # req[1].resp.mtype

\* C37: the close of a transport affects only what belongs to it: when a
\* superseded transport (one replaced by a later connect or reconnection
\* attempt) closes, the requests transmitted on the current transport stay
\* pending, with their timers, and the session established on the current
\* transport is not cleared.
C37_CloseOfSupersededIsLocal ==
    [][sock' # sock
       => \A s \in Sockets :
             (ws # 0 /\ s # ws /\ WsClose(s))
             => /\ \A r \in CorrIds :
                      (req[r].status = "pending" /\ req[r].sock = ws)
                      => /\ req'[r].status = "pending"
                         /\ r \in pending'
                         /\ r \in reqTimers'
                /\ (session # NULL /\ sock[ws].value = session)
                   => session' = session]_vars

\* ---- the tools with the promise reactions in their place: the handler that
\* awaits the connect promise goes on as soon as the promise is settled,
\* before the next timer or socket event

ResumeDue == tool.waiting # "none" /\ ConnectSettled

NextToolsInOrder ==
    \/ ToolResume
    \/ ~ResumeDue /\ \E t \in Tools : \E blk \in BOOLEAN : ToolCall(t, blk)
    \/ ~ResumeDue /\ \E s \in Sockets : WsOpen(s)
    \/ ~ResumeDue /\ \E s \in Sockets : WsSessionCreated(s, SessionFrame(s))
    \/ ~ResumeDue /\ \E s \in Sockets : WsError(s)
    \/ ~ResumeDue /\ \E s \in Sockets : WsClose(s)
    \/ ~ResumeDue /\ \E i \in 1..(2 * MaxSockets) : ReconnectTimer(i)
    \/ ~ResumeDue /\ \E p \in Places : SetActivePlace(p)

SpecToolsInOrder == InitTools /\ [][NextToolsInOrder]_vars

\* C38: whenever the promise of ensureConnected resolves, the client has a
\* session and an open transport, so that the handler's sendRequest does not
\* fail with the not-connected error (nor list_places find no session), also
\* for a call made after an unplanned disconnect while the reconnection is in
\* progress; and a first connection that failed does not fail the later
\* calls: no call is handed the promise of a connect that was rejected.
C38_EnsureConnectedMeansConnected ==
    [][tool' # tool
       => /\ tool'.outcome \notin {"threw", "not_connected"}
          /\ (tool.waiting = "none" /\ tool'.waiting # "none")
             => ~ConnectRejected]_vars


\* ---- the two readers of the event buffer as tools: list_events and
\* list_care_status on a connected client, the buffer fed with care/safety
\* events and with others

CARE_PREFIXES == {"subcare:", "subsafety:"}

\* the message types that reach the buffer here (docs/arcus-commands.md)
BufferedTypes ==
    {"base:ValueChange", "subcare:Acknowledge", "subsafety:Trigger",
     "subsecurity:Panic"}

\* the text of a message type up to and with its first colon
UpToColon(m) ==
    CASE m = "base:ValueChange" -> "base:"
      [] m = "subcare:Acknowledge" -> "subcare:"
      [] m = "subsafety:Trigger" -> "subsafety:"
      [] m = "subsecurity:Panic" -> "subsecurity:"

\* CARE_PREFIXES.some((p) => e.messageType.startsWith(p))
\* (a prefix that ends with its only colon is the start of a message type
\* when it is the type's text up to its first colon)
IsCare(e) == \E p \in CARE_PREFIXES : UpToColon(e.messageType) = p

CareFrames ==
    {[corr |-> 0, mtype |-> m, personId |-> "", places |-> <<>>] :
        m \in BufferedTypes}

\* the list_events tool once ensureConnected has found a session: it takes
\* the whole buffer through drainEvents and reports the events of it that
\* are not care/safety events
ListEvents ==
    /\ session # NULL
    /\ DrainEvents

NextCare ==
    \/ \E f \in CareFrames : BufferEventCall(f)
    \/ ListEvents
    \/ ListCareStatus

SpecCare == InitEvents /\ [][NextCare]_vars

\* C39: list_events removes from the buffer only what it reports: the
\* care/safety events it filters out of its result are still in the buffer
\* after the call, where a later list_care_status finds them.
C39_ListEventsRemovesOnlyReported ==
    [][ListEvents => events' = SelectSeq(events, IsCare)]_vars

====
